---------------------------- MODULE Spec2Model ----------------------------
(***************************************************************************)
(* A model of scottdb's table cache (src/src/table/cache.rs):               *)
(*   - the table parser ScTableCache::from_raw, over byte buffers;          *)
(*   - the permit CacheQuota and the TableCacheManager (semaphore + LRU     *)
(*     map of Arc<ScTableCache>), driven by concurrent caller threads.      *)
(*                                                                         *)
(* TLC's integers are 32-bit signed, so a u32/usize value is kept as a pair *)
(* <<lo, hi>> of 16-bit limbs (value = lo + 65536 * hi).  A u32 has         *)
(* hi < 65536; a usize (64-bit target) may have a larger hi.                *)
(***************************************************************************)
EXTENDS Integers, Sequences, FiniteSets, Bags, TLC

VARIABLES
    \* ---- TableCacheManager instances and the objects they hand out ----
    sem,        \* sem[m]: the count of manager m's Semaphore
    lru,        \* lru[m]: manager m's LruCache, most recently used first,
                \*         a sequence of [file, table] entries
    cap,        \* cap[m]: the capacity manager m's LruCache was built with
    quotas,     \* quotas[q]: 0 when no CacheQuota q is alive, else the
                \*            manager its cache_manager pointer refers to
    tables,     \* tables[q]: the ScTableCache whose field quota is q, if
                \*            any: its Arc strong count (0: owned by value)
                \*            and the table file its bytes were read from
    alive,      \* the TableCacheManager instances that exist
    \* ---- the caller threads ----
    callers,    \* the bag of the callers' local states: callers[c] threads
                \* are in state c.  The code never looks at which thread
                \* calls, so threads in the same local state are not told
                \* apart.  A local state c has the fields
                \*   pc:   "idle", or "blocked" inside acquire_quota
                \*   am:   the manager whose acquire_quota it is in
                \*   want: the [mgr, file] it missed on and is loading
                \*   hq:   the CacheQuota it holds directly (0: none)
                \*   ht:   the ScTableCache it owns by value (0: none)
                \*   hh:   the Arc<ScTableCache> handle it holds (0: none)
                \*   perr: the corruption reason from_raw returned to it
    \* ---- the parser run on its own ----
    raw,        \* the byte buffer handed to from_raw
    overflow_checks, \* whether the build traps integer overflow (debug)
    parsed,     \* the result of from_raw(raw), or NotParsed
    answer      \* the last call of get or nth_item on the parsed table and
                \* what it returned, or NotAsked

vars == <<sem, lru, cap, quotas, tables, alive, callers, raw,
          overflow_checks, parsed, answer>>
mgrVars == <<sem, lru, cap, quotas, tables, alive, callers>>
parseVars == <<raw, overflow_checks, parsed, answer>>

---------------------------------------------------------------------------
(* Fixed-width integers as 16-bit limbs                                    *)

LIMB == 256 * 256

W(n) == <<n % LIMB, n \div LIMB>>

WAdd(a, b) ==
    LET s == a[1] + b[1]
    IN  <<s % LIMB, a[2] + b[2] + (s \div LIMB)>>

WGt(a, b) == a[2] > b[2] \/ (a[2] = b[2] /\ a[1] > b[1])

WMod(a, m) == (((a[2] % m) * (LIMB % m)) + (a[1] % m)) % m

\* Only used where the value is known to fit (it equals a buffer length).
WToInt(a) == a[1] + LIMB * a[2]

\* u32 + u32 in Rust: the wrapped sum and whether it overflowed.
add_u32(a, b) ==
    LET s == WAdd(a, b)
    IN  [overflow |-> s[2] >= LIMB, value |-> <<s[1], s[2] % LIMB>>]

RECURSIVE BitXor(_, _)
BitXor(a, b) ==
    IF a = 0 THEN b
    ELSE IF b = 0 THEN a
    ELSE (((a % 2) + (b % 2)) % 2) + 2 * BitXor(a \div 2, b \div 2)

Xor32(a, b) == <<BitXor(a[1], b[1]), BitXor(a[2], b[2])>>

Shr32(c, k) ==
    LET p == 2 ^ k
    IN  <<(c[1] \div p) + (c[2] % p) * (LIMB \div p), c[2] \div p>>

---------------------------------------------------------------------------
(* crate::encode and crate::table::tablefmt (not among the sources)        *)

encode_fixed32_ret(v) ==
    <<v[1] % 256, v[1] \div 256, v[2] % 256, v[2] \div 256>>

decode_fixed32(b) == <<b[1] + 256 * b[2], b[3] + 256 * b[4]>>

\* a u64 as <<low u32, high u32>>
encode_fixed64_ret(v) == encode_fixed32_ret(v[1]) \o encode_fixed32_ret(v[2])

decode_fixed64(b) ==
    <<decode_fixed32(SubSeq(b, 1, 4)), decode_fixed32(SubSeq(b, 5, 8))>>

TABLE_HEAD_SIZE == 16
TABLE_MAGIC == <<83, 67, 84, 66>>
TABLE_MAGIC_SIZE == Len(TABLE_MAGIC)
TABLE_MIN_SIZE == TABLE_HEAD_SIZE + TABLE_MAGIC_SIZE
TABLE_MAX_SIZE == 128
TABLE_CATALOG_ITEM_SIZE == 24
\* 0x8000_0000: bit 31, i.e. bit 15 of the high limb
TABLE_DELETION_BITMASK == <<0, 32768>>

\* value_off & TABLE_DELETION_BITMASK != 0
IsDeleted(value_off) ==
    (value_off[2] \div TABLE_DELETION_BITMASK[2]) % 2 = 1

---------------------------------------------------------------------------
(* crc::crc32::checksum_ieee: reflected CRC-32, polynomial 0xEDB88320,     *)
(* initial value and final xor 0xFFFFFFFF, one table lookup per byte       *)

CRC32_POLY == <<33568, 60856>>
ALL_ONES == <<LIMB - 1, LIMB - 1>>

RECURSIVE crc_bits(_, _)
crc_bits(c, n) ==
    IF n = 0 THEN c
    ELSE LET d == IF c[1] % 2 = 1 THEN Xor32(Shr32(c, 1), CRC32_POLY)
                  ELSE Shr32(c, 1)
         IN  IF d = d THEN crc_bits(d, n - 1) ELSE d

CRC32_TABLE == [i \in 0..255 |-> crc_bits(<<i, 0>>, 8)]

RECURSIVE crc_update(_, _, _)
crc_update(c, bytes, i) ==
    IF i > Len(bytes) THEN c
    ELSE LET d == Xor32(CRC32_TABLE[BitXor(c[1] % 256, bytes[i])], Shr32(c, 8))
         IN  IF d = d THEN crc_update(d, bytes, i + 1) ELSE d

checksum_ieee(bytes) == Xor32(crc_update(ALL_ONES, bytes, 1), ALL_ONES)

---------------------------------------------------------------------------
(* ScTableCatalogItem                                                      *)

serialize(item) ==
    encode_fixed64_ret(item.key_seq) \o encode_fixed32_ret(item.key_off)
        \o encode_fixed32_ret(item.key_len) \o encode_fixed32_ret(item.value_off)
        \o encode_fixed32_ret(item.value_len)

deserialize(from) ==
    [key_seq   |-> decode_fixed64(SubSeq(from, 1, 8)),
     key_off   |-> decode_fixed32(SubSeq(from, 9, 12)),
     key_len   |-> decode_fixed32(SubSeq(from, 13, 16)),
     value_off |-> decode_fixed32(SubSeq(from, 17, 20)),
     value_len |-> decode_fixed32(SubSeq(from, 21, 24))]

---------------------------------------------------------------------------
(* ScTableCache::from_raw                                                  *)

\* &s[a..b] is defined (does not panic) iff a <= b <= s.len()
SliceOk(s, a, b) == a <= b /\ b <= Len(s)
Slice(s, a, b) == SubSeq(s, a + 1, b)

Corrupt(reason) ==
    [kind |-> "err", reason |-> reason, catalog |-> <<>>, data |-> <<>>]
Panicked ==
    [kind |-> "panic", reason |-> "", catalog |-> <<>>, data |-> <<>>]
Parsed(catalog, data) ==
    [kind |-> "ok", reason |-> "", catalog |-> catalog, data |-> data]

\* The verdict of lines 98-102 on one decoded entry: "ok", "err" or "panic".
\* `||` short-circuits: the value sum is not formed when the key range fails.
check_item(index, data_len, checks) ==
    IF IsDeleted(index.value_off) THEN "ok"
    ELSE LET k == add_u32(index.key_off, index.key_len)
             v == add_u32(index.value_off, index.value_len)
         IN  IF k.overflow /\ checks THEN "panic"
             ELSE IF WGt(k.value, W(data_len)) THEN "err"
             ELSE IF v.overflow /\ checks THEN "panic"
             ELSE IF WGt(v.value, W(data_len)) THEN "err"
             ELSE "ok"

\* The loop of lines 93-104 from entry i (0-based) on, catalog_item so far.
RECURSIVE parse_items(_, _, _, _, _)
parse_items(kv_catalog, data, i, catalog_item, checks) ==
    IF i >= Len(kv_catalog) \div TABLE_CATALOG_ITEM_SIZE
    THEN Parsed(catalog_item, data)
    ELSE LET base == i * TABLE_CATALOG_ITEM_SIZE
             index == deserialize(Slice(kv_catalog, base,
                                        base + TABLE_CATALOG_ITEM_SIZE))
             verdict == check_item(index, Len(data), checks)
         IN  IF verdict = "panic" THEN Panicked
             ELSE IF verdict = "err"
             THEN Corrupt("incorrect key/value catalog data")
             ELSE parse_items(kv_catalog, data, i + 1,
                              Append(catalog_item, index), checks)

\* A parser that does not compare the data checksum.
from_raw_body_no_data_crc(buf, kv_catalog_size, data_size, checks) ==
    LET kv_catalog_crc == decode_fixed32(Slice(buf, 8, 12))
        cat_end == TABLE_HEAD_SIZE + kv_catalog_size
        data_end == TABLE_HEAD_SIZE + kv_catalog_size + data_size
    IN  IF ~SliceOk(buf, TABLE_HEAD_SIZE, cat_end) \/ ~SliceOk(buf, cat_end, data_end)
        THEN Panicked
        ELSE LET kv_catalog == Slice(buf, TABLE_HEAD_SIZE, cat_end)
                 data == Slice(buf, cat_end, data_end)
             IN  IF checksum_ieee(kv_catalog) # kv_catalog_crc
                 THEN Corrupt("incorrect kv_catalog crc")
                 ELSE parse_items(kv_catalog, data, 0, <<>>, checks)

\* A parser that compares the data checksum before the catalog checksum.
from_raw_body_data_crc_first(buf, kv_catalog_size, data_size, checks) ==
    LET kv_catalog_crc == decode_fixed32(Slice(buf, 8, 12))
        data_crc == decode_fixed32(Slice(buf, 12, 16))
        cat_end == TABLE_HEAD_SIZE + kv_catalog_size
        data_end == TABLE_HEAD_SIZE + kv_catalog_size + data_size
    IN  IF ~SliceOk(buf, TABLE_HEAD_SIZE, cat_end) \/ ~SliceOk(buf, cat_end, data_end)
        THEN Panicked
        ELSE LET kv_catalog == Slice(buf, TABLE_HEAD_SIZE, cat_end)
                 data == Slice(buf, cat_end, data_end)
             IN  IF checksum_ieee(data) # data_crc
                 THEN Corrupt("incorrect data crc")
                 ELSE IF checksum_ieee(kv_catalog) # kv_catalog_crc
                 THEN Corrupt("incorrect kv_catalog crc")
                 ELSE parse_items(kv_catalog, data, 0, <<>>, checks)

\* Lines 79-106, once the sizes are known to add up to raw.len().
from_raw_body(buf, kv_catalog_size, data_size, checks) ==
    LET kv_catalog_crc == decode_fixed32(Slice(buf, 8, 12))
        data_crc == decode_fixed32(Slice(buf, 12, 16))
        cat_end == TABLE_HEAD_SIZE + kv_catalog_size
        data_end == TABLE_HEAD_SIZE + kv_catalog_size + data_size
    IN  IF ~SliceOk(buf, TABLE_HEAD_SIZE, cat_end) \/ ~SliceOk(buf, cat_end, data_end)
        THEN Panicked
        ELSE LET kv_catalog == Slice(buf, TABLE_HEAD_SIZE, cat_end)
                 data == Slice(buf, cat_end, data_end)
             IN  IF checksum_ieee(kv_catalog) # kv_catalog_crc
                 THEN Corrupt("incorrect kv_catalog crc")
                 ELSE IF checksum_ieee(data) # data_crc
                 THEN Corrupt("incorrect data crc")
                 ELSE parse_items(kv_catalog, data, 0, <<>>, checks)

\* usize is 64 bits wide: the sum of two u32 sizes and TABLE_MIN_SIZE is exact.
from_raw(buf, checks) ==
    IF Len(buf) < TABLE_MIN_SIZE
    THEN Corrupt("too small to be a table file")
    ELSE IF Len(buf) > TABLE_MAX_SIZE
    THEN Corrupt("too large to be a table file")
    ELSE IF ~SliceOk(buf, Len(buf) - TABLE_MAGIC_SIZE, Len(buf)) THEN Panicked
    ELSE IF Slice(buf, Len(buf) - TABLE_MAGIC_SIZE, Len(buf)) # TABLE_MAGIC
    THEN Corrupt("incorrect table magic")
    ELSE IF ~SliceOk(buf, 0, 4) \/ ~SliceOk(buf, 4, 8)
            \/ ~SliceOk(buf, 8, 12) \/ ~SliceOk(buf, 12, 16) THEN Panicked
    ELSE LET kv_catalog_size == decode_fixed32(Slice(buf, 0, 4))
             data_size == decode_fixed32(Slice(buf, 4, 8))
         IN  IF WMod(kv_catalog_size, TABLE_CATALOG_ITEM_SIZE) # 0
             THEN Corrupt("catalog size should be multiplication of 16")
             ELSE IF WAdd(WAdd(kv_catalog_size, data_size), W(TABLE_MIN_SIZE))
                       # W(Len(buf))
             THEN Corrupt("incorrect table size")
             ELSE from_raw_body(buf, WToInt(kv_catalog_size),
                                WToInt(data_size), checks)

---------------------------------------------------------------------------
(* ScTableCache::get, nth_item, key and value                              *)

\* &self.data[off as usize .. (off + len) as usize], the sum formed in u32:
\* the bytes, or a panic (overflow in a checked build, start past end, end
\* past the data)
data_range(data, off, len, checks) ==
    LET e == add_u32(off, len)
    IN  IF e.overflow /\ checks THEN [kind |-> "panic", bytes |-> <<>>]
        ELSE IF WGt(off, e.value) \/ WGt(e.value, W(Len(data)))
        THEN [kind |-> "panic", bytes |-> <<>>]
        ELSE [kind |-> "ok",
              bytes |-> SubSeq(data, WToInt(off) + 1, WToInt(e.value))]

key(tbl, catalog_item, checks) ==
    data_range(tbl.data, catalog_item.key_off, catalog_item.key_len, checks)

value(tbl, catalog_item, checks) ==
    data_range(tbl.data, catalog_item.value_off, catalog_item.value_len, checks)

\* Comparator::compare of DefaultComparator: lhs.cmp(rhs) on byte slices
RECURSIVE compare(_, _)
compare(lhs, rhs) ==
    IF lhs = <<>> /\ rhs = <<>> THEN "Equal"
    ELSE IF lhs = <<>> THEN "Less"
    ELSE IF rhs = <<>> THEN "Greater"
    ELSE IF Head(lhs) < Head(rhs) THEN "Less"
    ELSE IF Head(lhs) > Head(rhs) THEN "Greater"
    ELSE compare(Tail(lhs), Tail(rhs))

\* u64 sequence numbers, <<low u32, high u32>>
SeqGt(a, b) == WGt(a[2], b[2]) \/ (a[2] = b[2] /\ WGt(a[1], b[1]))

\* InternalKey::cmp (crate::partition, not among the sources): user key by
\* the comparator, then sequence number descending
InternalKey_cmp(a, b) ==
    LET u == compare(a.user_key, b.user_key)
    IN  IF u # "Equal" THEN u
        ELSE IF SeqGt(a.seq, b.seq) THEN "Less"
        ELSE IF SeqGt(b.seq, a.seq) THEN "Greater"
        ELSE "Equal"

\* The closure of lines 111-117 on the entry at index i (0-based):
\* key.cmp(&lookup_key), or "panic" when the entry's key cannot be read
probe(tbl, lookup, i, checks) ==
    LET catalog_item == tbl.catalog[i + 1]
        user_key == key(tbl, catalog_item, checks)
    IN  IF user_key.kind = "panic" THEN "panic"
        ELSE InternalKey_cmp(lookup, [seq |-> catalog_item.key_seq,
                                      user_key |-> user_key.bytes])

\* The builds of slice::binary_search_by: the loop that halves `size` and
\* compares once more at the end, and the loop over [left, right) that
\* returns at the first Equal.
SearchImpls == {"halving", "bisect"}

RECURSIVE search_halving(_, _, _, _, _)
search_halving(tbl, lookup, base, size, checks) ==
    IF size > 1
    THEN LET half == size \div 2
             mid == base + half
             cmp == probe(tbl, lookup, mid, checks)
         IN  IF cmp = "panic" THEN [kind |-> "panic", idx |-> 0]
             ELSE search_halving(tbl, lookup,
                                 IF cmp = "Greater" THEN base ELSE mid,
                                 size - half, checks)
    ELSE LET cmp == probe(tbl, lookup, base, checks)
         IN  IF cmp = "panic" THEN [kind |-> "panic", idx |-> 0]
             ELSE IF cmp = "Equal" THEN [kind |-> "Ok", idx |-> base]
             ELSE [kind |-> "Err", idx |-> 0]

RECURSIVE search_bisect(_, _, _, _, _)
search_bisect(tbl, lookup, left, right, checks) ==
    IF left < right
    THEN LET mid == left + ((right - left) \div 2)
             cmp == probe(tbl, lookup, mid, checks)
         IN  IF cmp = "panic" THEN [kind |-> "panic", idx |-> 0]
             ELSE IF cmp = "Less"
             THEN search_bisect(tbl, lookup, mid + 1, right, checks)
             ELSE IF cmp = "Greater"
             THEN search_bisect(tbl, lookup, left, mid, checks)
             ELSE [kind |-> "Ok", idx |-> mid]
    ELSE [kind |-> "Err", idx |-> 0]

binary_search_by(tbl, lookup, checks, impl) ==
    IF Len(tbl.catalog) = 0 THEN [kind |-> "Err", idx |-> 0]
    ELSE IF impl = "halving"
    THEN search_halving(tbl, lookup, 0, Len(tbl.catalog), checks)
    ELSE search_bisect(tbl, lookup, 0, Len(tbl.catalog), checks)

NotFound == [kind |-> "none", bytes |-> <<>>]
Found(bytes) == [kind |-> "some", bytes |-> bytes]
GetPanicked == [kind |-> "panic", bytes |-> <<>>]

\* A get that returns the value range of whatever entry the search finds.
get_ignoring_tombstone(tbl, lookup, checks, impl) ==
    LET r == binary_search_by(tbl, lookup, checks, impl)
    IN  IF r.kind = "panic" THEN GetPanicked
        ELSE IF r.kind = "Ok"
        THEN LET v == value(tbl, tbl.catalog[r.idx + 1], checks)
             IN  IF v.kind = "panic" THEN GetPanicked ELSE Found(v.bytes)
        ELSE NotFound

\* ScTableCache::get
get(tbl, lookup, checks, impl) ==
    LET r == binary_search_by(tbl, lookup, checks, impl)
    IN  IF r.kind = "panic" THEN GetPanicked
        ELSE IF r.kind = "Ok"
        THEN IF IsDeleted(tbl.catalog[r.idx + 1].value_off) THEN NotFound
             ELSE LET v == value(tbl, tbl.catalog[r.idx + 1], checks)
                  IN  IF v.kind = "panic" THEN GetPanicked ELSE Found(v.bytes)
        ELSE NotFound

\* ScTableCache::catalog_size
catalog_size(tbl) == Len(tbl.catalog)

ItemPanicked == [kind |-> "panic", seq |-> <<>>, key |-> <<>>, value |-> <<>>]

\* ScTableCache::nth_item
nth_item(tbl, n, checks) ==
    IF ~(n < catalog_size(tbl)) THEN ItemPanicked
    ELSE LET catalog_item == tbl.catalog[n + 1]
             k == key(tbl, catalog_item, checks)
             v == value(tbl, catalog_item, checks)
         IN  IF k.kind = "panic" \/ v.kind = "panic" THEN ItemPanicked
             ELSE [kind |-> "item", seq |-> catalog_item.key_seq,
                   key |-> k.bytes, value |-> v.bytes]

---------------------------------------------------------------------------
(* Table files as the writer lays them out (spec section 6), and the       *)
(* damaged variants handed to the parser                                    *)

RECURSIVE serialize_all(_)
serialize_all(items) ==
    IF items = <<>> THEN <<>>
    ELSE serialize(Head(items)) \o serialize_all(Tail(items))

\* [catalog_size][data_size][catalog_crc][data_crc][catalog][data][magic]
TableFile(items, data) ==
    LET cat == serialize_all(items)
    IN  encode_fixed32_ret(W(Len(cat))) \o encode_fixed32_ret(W(Len(data)))
            \o encode_fixed32_ret(checksum_ieee(cat))
            \o encode_fixed32_ret(checksum_ieee(data))
            \o cat \o data \o TABLE_MAGIC

\* buf with the byte at 0-based offset off replaced by (byte + 1) mod 256
FlipByte(buf, off) == [buf EXCEPT ![off + 1] = (@ + 1) % 256]

\* buf with the u32 at 0-based offset off increased by d (no carry beyond it)
BumpField(buf, off, d) ==
    LET v == add_u32(decode_fixed32(Slice(buf, off, off + 4)), W(d)).value
        e == encode_fixed32_ret(v)
    IN  [i \in 1..Len(buf) |->
            IF i > off /\ i <= off + 4 THEN e[i - off] ELSE buf[i]]

Defects ==
    {"none", "truncated", "cut", "oversized", "magic", "misaligned",
     "data_size", "catalog_crc", "data_crc", "catalog_byte", "data_byte"}

Damage(buf, defect) ==
    CASE defect = "truncated" -> SubSeq(buf, 1, TABLE_MIN_SIZE - 1)
      [] defect = "cut" -> SubSeq(buf, 1, Len(buf) - 1)
      [] defect = "oversized" ->
            buf \o [i \in 1..(TABLE_MAX_SIZE + 1 - Len(buf)) |-> 0]
      [] defect = "magic" -> FlipByte(buf, Len(buf) - 1)
      [] defect = "misaligned" -> BumpField(buf, 0, 1)
      [] defect = "data_size" -> BumpField(buf, 4, 1)
      [] defect = "catalog_crc" -> FlipByte(buf, 8)
      [] defect = "data_crc" -> FlipByte(buf, 12)
      [] defect = "catalog_byte" ->
            IF decode_fixed32(Slice(buf, 0, 4)) = W(0) THEN buf
            ELSE FlipByte(buf, TABLE_HEAD_SIZE)
      [] defect = "data_byte" -> FlipByte(buf, Len(buf) - TABLE_MAGIC_SIZE - 1)
      [] OTHER -> buf

\* The data segment of the sample tables: keys "k" and "l", value "v".
SampleData == <<107, 108, 118>>

Item(seq, key_off, key_len, value_off, value_len) ==
    [key_seq |-> <<W(seq), W(0)>>, key_off |-> key_off, key_len |-> key_len,
     value_off |-> value_off, value_len |-> value_len]

\* Catalog entries: two live entries, a tombstone whose value range is not
\* a data pointer, an entry past the end of the data, and entries whose
\* 32-bit offset + length sum reaches 2^32.
SampleItems ==
    {Item(7, W(0), W(1), W(2), W(1)),
     Item(3, W(1), W(1), W(2), W(1)),
     Item(5, W(0), W(1), <<9, 32768>>, W(9)),
     Item(4, W(0), W(1), W(2), W(2)),
     Item(2, <<LIMB - 1, LIMB - 1>>, W(2), W(0), W(1)),
     Item(1, W(0), W(1), <<LIMB - 1, 32767>>, <<2, 32768>>)}

MaxItems == 2

RECURSIVE SeqsUpTo(_, _)
SeqsUpTo(S, n) ==
    IF n = 0 THEN {<<>>}
    ELSE LET shorter == SeqsUpTo(S, n - 1)
         IN  shorter \cup {Append(c, x) : c \in shorter, x \in S}

SampleCatalogs == SeqsUpTo(SampleItems, MaxItems)

RawInputs ==
    {Damage(TableFile(items, SampleData), defect) :
        items \in SampleCatalogs, defect \in Defects}

---------------------------------------------------------------------------
(* The cache managers, their callers and the objects in play               *)

\* cache_count: Options::cache_count, passed to TableCacheManager::new
CacheCount == 2
\* the number of caller threads
NumThreads == 3
\* with a second manager: its cache_count, and the number of caller threads
OtherCount == 1
PairThreads == 2

\* Manager 1 is the cache under study; manager 2, where it exists, is a
\* second instance whose permits can end up in tables added to manager 1.
Managers == {1, 2}
\* ScTableFile identities: one more than a map holds
Files == 1..(CacheCount + 1)
\* Names for the CacheQuota values alive at a time; a ScTableCache is named
\* by the CacheQuota it owns.
QuotaIds == 1..(CacheCount + OtherCount + 1)

NoWant == [mgr |-> 0, file |-> 0]
NoTable == [live |-> FALSE, strong |-> 0, file |-> 0]
NotParsed == [kind |-> "none", reason |-> "", catalog |-> <<>>, data |-> <<>>]
NotAsked == [op |-> "none"]
IdleCaller ==
    [pc |-> "idle", am |-> 0, want |-> NoWant, hq |-> 0, ht |-> 0, hh |-> 0,
     perr |-> ""]

\* The bytes the I/O layer hands a caller: a sound table file and a damaged one.
CallerRaws ==
    {TableFile(<<>>, SampleData),
     Damage(TableFile(<<>>, SampleData), "data_crc")}

\* from_raw on each of them (the entries of these files never overflow)
CallerResults == {from_raw(r, TRUE) : r \in CallerRaws}

FreeQuotas == {q \in QuotaIds : quotas[q] = 0}
MinOf(S) == CHOOSE x \in S : \A y \in S : x <= y

\* The local states some caller is in, and the bag after one caller moves
\* from local state c to local state d.
Callers == BagToSet(callers)
Move(c, d) == (callers (-) SetToBag({c})) (+) SetToBag({d})

Position(cache, f) ==
    IF \E i \in 1..Len(cache) : cache[i].file = f
    THEN CHOOSE i \in 1..Len(cache) : cache[i].file = f
    ELSE 0
Without(cache, i) == SubSeq(cache, 1, i - 1) \o SubSeq(cache, i + 1, Len(cache))

\* A manager whose map is built one entry smaller than its semaphore.
new_small_map(cache_count) ==
    [lru |-> <<>>, cap |-> cache_count - 1, sem |-> cache_count]

\* TableCacheManager::new
new(cache_count) == [lru |-> <<>>, cap |-> cache_count, sem |-> cache_count]

\* A semaphore that lets a caller through at count 0.
can_acquire_at_zero(count) == count >= 0

\* Semaphore::acquire can return: the count is positive
can_acquire(count) == count > 0

\* A release that hands back two slots.
on_cache_released_twice(s, m) == [s EXCEPT ![m] = @ + 2]

\* TableCacheManager::on_cache_released: sem.release()
on_cache_released(s, m) == [s EXCEPT ![m] = @ + 1]

\* A CacheQuota that goes away without telling its manager.
drop_quota_forgotten(st, q) ==
    [st EXCEPT !.quotas = [st.quotas EXCEPT ![q] = 0]]

\* impl Drop for CacheQuota
drop_quota(st, q) ==
    [st EXCEPT !.sem = on_cache_released(st.sem, st.quotas[q]),
               !.quotas = [st.quotas EXCEPT ![q] = 0]]

\* Dropping a ScTableCache value drops its field quota.
drop_table(st, tb) ==
    drop_quota([st EXCEPT !.tables = [st.tables EXCEPT ![tb] = NoTable]], tb)

\* A handle copied without being counted.
arc_clone_uncounted(tbls, tb) == tbls

\* Arc::clone: one more strong reference to table tb
arc_clone(tbls, tb) == [tbls EXCEPT ![tb].strong = @ + 1]

\* An Arc whose every drop destroys the table, other holders or not.
drop_arc_eager(st, tb) == drop_table(st, tb)

\* Dropping one Arc<ScTableCache>: the table goes with the last one.
drop_arc(st, tb) ==
    IF st.tables[tb].strong = 1 THEN drop_table(st, tb)
    ELSE [st EXCEPT !.tables = [st.tables EXCEPT ![tb].strong = @ - 1]]

\* A put into a map that never lets go of an entry to make room.
lru_put_unbounded(cache, capacity, f, tb) ==
    LET i == Position(cache, f)
        e == [file |-> f, table |-> tb]
    IN  IF i # 0
        THEN [cache |-> <<e>> \o Without(cache, i), dropped |-> cache[i].table]
        ELSE [cache |-> <<e>> \o cache, dropped |-> 0]

\* A put that makes room by letting go of the most recently used entry.
lru_put_evict_mru(cache, capacity, f, tb) ==
    LET i == Position(cache, f)
        e == [file |-> f, table |-> tb]
    IN  IF i # 0
        THEN [cache |-> <<e>> \o Without(cache, i), dropped |-> cache[i].table]
        ELSE IF Len(cache) >= capacity
        THEN [cache |-> <<e>> \o Tail(cache), dropped |-> cache[1].table]
        ELSE [cache |-> <<e>> \o cache, dropped |-> 0]

\* LruCache::put(file, table) on a cache of the given capacity: the new map and
\* the value the map lets go of (0: none)
lru_put(cache, capacity, f, tb) ==
    LET i == Position(cache, f)
        e == [file |-> f, table |-> tb]
    IN  IF i # 0
        THEN [cache |-> <<e>> \o Without(cache, i), dropped |-> cache[i].table]
        ELSE IF Len(cache) >= capacity
        THEN [cache |-> <<e>> \o SubSeq(cache, 1, Len(cache) - 1),
              dropped |-> cache[Len(cache)].table]
        ELSE [cache |-> <<e>> \o cache, dropped |-> 0]

\* A lookup that leaves the recency order alone (LruCache::peek).
lru_peek(cache, f) ==
    LET i == Position(cache, f)
    IN  [cache |-> cache, found |-> IF i = 0 THEN 0 ELSE cache[i].table]

\* LruCache::get(&file): the new map and the value found (0: none)
lru_get(cache, f) ==
    LET i == Position(cache, f)
    IN  IF i = 0 THEN [cache |-> cache, found |-> 0]
        ELSE [cache |-> <<cache[i]>> \o Without(cache, i),
              found |-> cache[i].table]

\* The shared objects as one record, for the drop helpers.
Shared == [sem |-> sem, quotas |-> quotas, tables |-> tables]
\* A release through the cache_manager pointer of a CacheQuota whose manager
\* has been destroyed writes to memory that is no longer a Semaphore: the
\* count found there afterwards can be anything.
Dangling(s) == {m \in Managers \ alive : s[m] # sem[m]}
Outcomes(s) ==
    IF Dangling(s) = {} THEN {s}
    ELSE {t \in [Managers -> 0..(CacheCount + 1)] :
             \A m \in Managers \ Dangling(s) : t[m] = s[m]}
Store(st) ==
    sem' \in Outcomes(st.sem) /\ quotas' = st.quotas /\ tables' = st.tables

\* The managers in mgrs built with the slot counts count[m], nothing handed
\* out, n callers, all idle.
MgrInit(mgrs, count, n) ==
    /\ alive = mgrs
    /\ sem = [m \in Managers |-> new(count[m]).sem]
    /\ lru = [m \in Managers |-> new(count[m]).lru]
    /\ cap = [m \in Managers |-> new(count[m]).cap]
    /\ quotas = [q \in QuotaIds |-> 0]
    /\ tables = [q \in QuotaIds |-> NoTable]
    /\ callers = (IdleCaller :> n)

\* A caller between operations, holding neither a permit nor a parsed table.
Ready(c) ==
    c.pc = "idle" /\ c.perr = "" /\ c.hq = 0 /\ c.ht = 0

\* TableCacheManager::get_cache(table_file) on manager m, by a caller that
\* is not loading a table and holds no handle; a miss makes it start loading
\* table_file.
GetCache(c, m, f) ==
    /\ m \in alive
    /\ Ready(c) /\ c.want = NoWant /\ c.hh = 0
    /\ LET r == lru_get(lru[m], f)
       IN  /\ lru' = [lru EXCEPT ![m] = r.cache]
           /\ IF r.found # 0
              THEN /\ tables' = arc_clone(tables, r.found)
                   /\ callers' = Move(c, [c EXCEPT !.hh = r.found])
              ELSE /\ tables' = tables
                   /\ callers' = Move(c, [c EXCEPT !.want =
                                                [mgr |-> m, file |-> f]])
    /\ UNCHANGED <<sem, quotas, cap, alive, parseVars>>

\* A CacheQuota made without taking a slot from the semaphore.
take_slot_forged(c, m) ==
    /\ FreeQuotas # {}
    /\ LET q == MinOf(FreeQuotas)
       IN  /\ sem' = sem
           /\ quotas' = [quotas EXCEPT ![q] = m]
           /\ callers' = Move(c, [c EXCEPT !.pc = "idle", !.am = 0, !.hq = q])

\* sem.acquire() getting a slot of manager m, then CacheQuota::new: the
\* caller in local state c goes on, idle, holding the new permit.
take_slot(c, m) ==
    /\ FreeQuotas # {}
    /\ LET q == MinOf(FreeQuotas)
       IN  /\ sem' = [sem EXCEPT ![m] = @ - 1]
           /\ quotas' = [quotas EXCEPT ![q] = m]
           /\ callers' = Move(c, [c EXCEPT !.pc = "idle", !.am = 0, !.hq = q])

\* TableCacheManager::acquire_quota on manager m, by a caller that missed:
\* it returns a CacheQuota if the semaphore has a slot, and blocks if not.
AcquireQuota(c, m) ==
    /\ m \in alive
    /\ Ready(c) /\ c.want # NoWant
    /\ IF can_acquire(sem[m])
       THEN take_slot(c, m)
       ELSE /\ callers' = Move(c, [c EXCEPT !.pc = "blocked", !.am = m])
            /\ UNCHANGED <<sem, quotas>>
    /\ UNCHANGED <<lru, tables, cap, alive, parseVars>>

\* A caller blocked in acquire_quota finds a slot and returns.
AcquireWake(c) ==
    /\ c.pc = "blocked"
    /\ can_acquire(sem[c.am])
    /\ take_slot(c, c.am)
    /\ UNCHANGED <<lru, tables, cap, alive, parseVars>>

\* ScTableCache::from_raw(raw, quota) with the permit the caller holds: Ok
\* moves the permit into the table, Err (or a panic) drops it.
FromRaw(c) ==
    /\ c.pc = "idle" /\ c.hq # 0
    /\ \E res \in CallerResults :
          IF res.kind = "ok"
          THEN /\ tables' = [tables EXCEPT ![c.hq] =
                                [live |-> TRUE, strong |-> 0,
                                 file |-> c.want.file]]
               /\ callers' = Move(c, [c EXCEPT !.hq = 0, !.ht = c.hq])
               /\ UNCHANGED <<sem, quotas>>
          ELSE /\ Store(drop_quota(Shared, c.hq))
               /\ callers' = Move(c, [c EXCEPT !.hq = 0, !.want = NoWant,
                                 !.perr = IF res.kind = "err" THEN res.reason
                                          ELSE "panic"])
    /\ UNCHANGED <<lru, cap, alive, parseVars>>

\* The caller takes note of the corruption error and goes on.
ReportError(c) ==
    /\ c.perr # ""
    /\ callers' = Move(c, [c EXCEPT !.perr = ""])
    /\ UNCHANGED <<sem, lru, quotas, tables, cap, alive, parseVars>>

\* TableCacheManager::add_cache(table_file, table_cache) on the manager the
\* caller missed on, with the table it parsed.
AddCache(c) ==
    /\ c.pc = "idle" /\ c.ht # 0 /\ c.hh = 0
    /\ c.want.mgr \in alive
    /\ LET m == c.want.mgr
           tb == c.ht
           r == lru_put(lru[m], cap[m], c.want.file, tb)
           \* Arc::new, and the clone kept by the map
           st == [Shared EXCEPT !.tables =
                     arc_clone([tables EXCEPT ![tb].strong = 1], tb)]
       IN  /\ lru' = [lru EXCEPT ![m] = r.cache]
           /\ Store(IF r.dropped = 0 THEN st ELSE drop_arc(st, r.dropped))
           /\ callers' = Move(c, [c EXCEPT !.ht = 0, !.hh = tb,
                                           !.want = NoWant])
    /\ UNCHANGED <<cap, alive, parseVars>>

\* A caller drops its Arc<ScTableCache> handle.
DropHandle(c) ==
    /\ c.hh # 0
    /\ Store(drop_arc(Shared, c.hh))
    /\ callers' = Move(c, [c EXCEPT !.hh = 0])
    /\ UNCHANGED <<lru, cap, alive, parseVars>>

\* A caller drops the CacheQuota it holds without parsing anything.
DropQuota(c) ==
    /\ c.pc = "idle" /\ c.hq # 0
    /\ Store(drop_quota(Shared, c.hq))
    /\ callers' = Move(c, [c EXCEPT !.hq = 0, !.want = NoWant])
    /\ UNCHANGED <<lru, cap, alive, parseVars>>

\* A caller drops the ScTableCache it parsed without adding it to a map.
DropTable(c) ==
    /\ c.pc = "idle" /\ c.ht # 0
    /\ Store(drop_table(Shared, c.ht))
    /\ callers' = Move(c, [c EXCEPT !.ht = 0, !.want = NoWant])
    /\ UNCHANGED <<lru, cap, alive, parseVars>>

NoParse ==
    /\ raw = <<>>
    /\ overflow_checks = TRUE
    /\ parsed = NotParsed
    /\ answer = NotAsked

\* One manager, as in ScottDB::new.
Init ==
    /\ MgrInit({1}, [m \in Managers |-> CacheCount], NumThreads)
    /\ NoParse

Next ==
    \/ \E c \in Callers, m \in Managers, f \in Files : GetCache(c, m, f)
    \/ \E c \in Callers, m \in Managers : AcquireQuota(c, m)
    \/ \E c \in Callers : AcquireWake(c)
    \/ \E c \in Callers : FromRaw(c)
    \/ \E c \in Callers : ReportError(c)
    \/ \E c \in Callers : AddCache(c)
    \/ \E c \in Callers : DropHandle(c)
    \/ \E c \in Callers : DropQuota(c)
    \/ \E c \in Callers : DropTable(c)

Spec == Init /\ [][Next]_vars

\* Callers that go on: a caller that holds a handle, a permit or a parsed
\* table eventually does the next thing with it, which ends in dropping it,
\* and the semaphore lets a blocked caller return when slots keep coming.
Progress ==
    /\ WF_vars(\E c \in Callers : DropHandle(c))
    /\ WF_vars(\E c \in Callers : FromRaw(c) \/ DropQuota(c))
    /\ WF_vars(\E c \in Callers : AddCache(c) \/ DropTable(c))
    /\ WF_vars(\E c \in Callers : ReportError(c))
    /\ SF_vars(\E c \in Callers : AcquireWake(c))

FairSpec == Init /\ [][Next]_vars /\ Progress

\* Two managers: callers cache tables in manager 1 and may take the permit
\* for a table from either manager: a table with a permit of manager 2 can
\* be added to manager 1's map when that map is full.
PairInit ==
    /\ MgrInit(Managers,
               [m \in Managers |-> IF m = 1 THEN CacheCount ELSE OtherCount],
               PairThreads)
    /\ NoParse

PairNext ==
    \/ \E c \in Callers, f \in Files : GetCache(c, 1, f)
    \/ \E c \in Callers, m \in Managers : AcquireQuota(c, m)
    \/ \E c \in Callers : AcquireWake(c)
    \/ \E c \in Callers : FromRaw(c)
    \/ \E c \in Callers : ReportError(c)
    \/ \E c \in Callers : AddCache(c)
    \/ \E c \in Callers : DropHandle(c)
    \/ \E c \in Callers : DropQuota(c)
    \/ \E c \in Callers : DropTable(c)

PairSpec == PairInit /\ [][PairNext]_vars

---------------------------------------------------------------------------
(* The end of a manager's life                                             *)

\* Dropping the LruCache drops the Arc of each entry in turn.
RECURSIVE drop_map(_, _)
drop_map(st, cache) ==
    IF cache = <<>> THEN st
    ELSE drop_map(drop_arc(st, Head(cache).table), Tail(cache))

\* The owner of manager m drops it (ScottDB goes out of scope): no call on m
\* is in progress, since a call borrows the manager.  The fields are dropped
\* in the order of their declaration, the map before the semaphore, so the
\* permits released by the map's tables still find the semaphore.  Nothing
\* looks at the permits and handles the callers hold: CacheQuota and
\* Arc<ScTableCache> carry no borrow of the manager.
DropManager(m) ==
    /\ m \in alive
    /\ \A c \in Callers : ~(c.pc = "blocked" /\ c.am = m)
    /\ Store(drop_map(Shared, lru[m]))
    /\ lru' = [lru EXCEPT ![m] = <<>>]
    /\ alive' = alive \ {m}
    /\ UNCHANGED <<cap, callers, parseVars>>

TeardownNext ==
    \/ Next
    \/ \E m \in Managers : DropManager(m)

TeardownSpec == Init /\ [][TeardownNext]_vars

---------------------------------------------------------------------------
(* The parser on its own: from_raw applied to each sample buffer           *)

ParseInit ==
    /\ MgrInit({1}, [m \in Managers |-> CacheCount], NumThreads)
    /\ raw \in RawInputs
    /\ overflow_checks \in BOOLEAN
    /\ parsed = NotParsed
    /\ answer = NotAsked

ParseStep ==
    /\ parsed = NotParsed
    /\ parsed' = from_raw(raw, overflow_checks)
    /\ UNCHANGED <<raw, overflow_checks, answer, mgrVars>>

ParseNext == ParseStep

ParseSpec == ParseInit /\ [][ParseNext]_vars

---------------------------------------------------------------------------
(* The parser on buffers with more than one thing wrong                    *)

\* Catalogs over SampleData: none, a sound entry, and an entry past the end
\* of the data before or after one whose offset + length reaches 2^32.
OrderCatalogs ==
    LET sound == Item(7, W(0), W(1), W(2), W(1))
        past == Item(4, W(0), W(1), W(2), W(2))
        wrapping == Item(2, <<LIMB - 1, LIMB - 1>>, W(2), W(0), W(1))
    IN  {<<>>, <<sound>>, <<sound, past>>, <<past, wrapping>>,
         <<wrapping, past>>}

OrderInputs ==
    {Damage(Damage(TableFile(items, SampleData), d1), d2) :
        items \in OrderCatalogs, d1 \in Defects, d2 \in Defects}

OrderInit ==
    /\ MgrInit({1}, [m \in Managers |-> CacheCount], NumThreads)
    /\ raw \in OrderInputs
    /\ overflow_checks \in BOOLEAN
    /\ parsed = NotParsed
    /\ answer = NotAsked

OrderNext == ParseStep

OrderSpec == OrderInit /\ [][OrderNext]_vars

---------------------------------------------------------------------------
(* Lookups in a parsed table: from_raw, then get and nth_item               *)

\* The user keys "k" and "l" at offsets 0 and 1, then one value byte for
\* each (user key, sequence number) pair.
UserKeys == <<107, 108>>
Seqs == <<7, 5, 3>>
TableData == UserKeys \o <<97, 98, 99, 100, 101, 102>>

\* The pairs in catalog order: user key ascending, sequence descending.
\* Pair j has user key (j - 1) \div 3 + 1 and sequence Seqs[(j - 1) % 3 + 1].
PairCount == Len(UserKeys) * Len(Seqs)
PairKey(j) == ((j - 1) \div Len(Seqs)) + 1
PairSeq(j) == Seqs[((j - 1) % Len(Seqs)) + 1]

\* The entry for pair j: its value byte, or a tombstone whose value fields
\* point nowhere.
LiveEntry(j) ==
    Item(PairSeq(j), W(PairKey(j) - 1), W(1), W(Len(UserKeys) + j - 1), W(1))
Tombstone(j) ==
    Item(PairSeq(j), W(PairKey(j) - 1), W(1), <<9, 32768>>, W(9))

\* the longest catalog of the tables looked into
MaxEntries == 3

\* The catalogs over an increasing choice of pairs, each entry live or a
\* tombstone.
RECURSIVE SortedCatalogs(_, _)
SortedCatalogs(from, n) ==
    IF n = 0 THEN {<<>>}
    ELSE {<<>>} \cup
         UNION {{<<e>> \o rest : e \in {LiveEntry(j), Tombstone(j)},
                                 rest \in SortedCatalogs(j + 1, n - 1)} :
                j \in from..PairCount}

\* A tombstone whose key range is past the data, and a live entry whose
\* key_off + key_len is 2^32 + 1.
LooseTombstone == Item(5, W(0), W(9), <<9, 32768>>, W(9))
WrappingEntry == Item(2, <<LIMB - 1, LIMB - 1>>, W(2), W(2), W(1))

OtherCatalogs ==
    {<<e>> : e \in {LooseTombstone, WrappingEntry}}
        \cup {<<LiveEntry(1), LooseTombstone>>, <<LooseTombstone, LiveEntry(6)>>}

TableInputs ==
    {TableFile(items, TableData) :
        items \in SortedCatalogs(1, MaxEntries) \cup OtherCatalogs}

\* The keys looked up: each pair, and a user key and a sequence number no
\* entry has.
LookupKeys ==
    {[seq |-> <<W(sq), W(0)>>, user_key |-> <<u>>] :
        sq \in {Seqs[i] : i \in 1..Len(Seqs)} \cup {4},
        u \in {UserKeys[i] : i \in 1..Len(UserKeys)} \cup {109}}

TableInit ==
    /\ MgrInit({1}, [m \in Managers |-> CacheCount], NumThreads)
    /\ raw \in TableInputs
    /\ overflow_checks \in BOOLEAN
    /\ parsed = NotParsed
    /\ answer = NotAsked

\* table.get(&lookup) on the table from_raw returned
Get(lookup, impl) ==
    /\ parsed.kind = "ok"
    /\ answer' = [op |-> "get", lookup |-> lookup, impl |-> impl,
                  res |-> get(parsed, lookup, overflow_checks, impl)]
    /\ UNCHANGED <<raw, overflow_checks, parsed, mgrVars>>

\* table.nth_item(n) on the table from_raw returned
NthItem(n) ==
    /\ parsed.kind = "ok"
    /\ n <= catalog_size(parsed)
    /\ answer' = [op |-> "nth", n |-> n,
                  res |-> nth_item(parsed, n, overflow_checks)]
    /\ UNCHANGED <<raw, overflow_checks, parsed, mgrVars>>

TableNext ==
    \/ ParseStep
    \/ \E lookup \in LookupKeys, impl \in SearchImpls : Get(lookup, impl)
    \/ \E n \in 0..MaxEntries : NthItem(n)

TableSpec == TableInit /\ [][TableNext]_vars

---------------------------------------------------------------------------
(* Quantities the properties speak of                                      *)

RECURSIVE CopiesSum(_, _)
CopiesSum(bag, S) ==
    IF S = {} THEN 0
    ELSE LET x == CHOOSE y \in S : TRUE
         IN  CopiesIn(x, bag) + CopiesSum(bag, S \ {x})

\* The permits of manager m that are outstanding.
Outstanding(m) == Cardinality({q \in QuotaIds : quotas[q] = m})

\* The callers blocked inside acquire_quota of manager m.
Waiters(m) == {c \in Callers : c.pc = "blocked" /\ c.am = m}
Waiting(m) == CopiesSum(callers, Waiters(m))

\* The shared handles to table tb: the maps' own references and the callers'.
InMaps(tb) ==
    Cardinality({e \in Managers \X (1..Cardinality(QuotaIds)) :
                    e[2] <= Len(lru[e[1]]) /\ lru[e[1]][e[2]].table = tb})
Holders(tb) == CopiesSum(callers, {c \in Callers : c.hh = tb})
Refs(tb) == InMaps(tb) + Holders(tb)

---------------------------------------------------------------------------
(* C1: a manager created with slot count N never has more than N permits   *)
(* outstanding, and while N are outstanding no caller blocked in            *)
(* acquire_quota can return.                                                *)
C1_AdmissionBound ==
    \A m \in alive :
        /\ Outstanding(m) <= cap[m]
        /\ Outstanding(m) = cap[m] =>
              \A c \in Waiters(m) : ~ENABLED AcquireWake(c)

\* N permits are out and a further caller is blocked in acquire_quota.
C1_Witness ==
    Outstanding(1) = cap[1] /\ Waiting(1) >= 1

(* C2: a release adds exactly one slot and lets no caller through by        *)
(* itself; a caller leaves acquire_quota only by taking one slot, one       *)
(* caller per slot; and a waiting caller can return whenever a slot is      *)
(* there.  So one release with k callers blocked lets exactly one of them   *)
(* return and the other k-1 wait for a further release.                     *)
C2_Step ==
    \A m \in Managers :
        /\ Waiting(m)' >= Waiting(m) - 1
        /\ Waiting(m)' < Waiting(m) => sem[m] >= 1 /\ sem'[m] = sem[m] - 1
        /\ sem'[m] > sem[m] => sem'[m] = sem[m] + 1 /\ Waiting(m)' = Waiting(m)

C2_OneWaiterPerRelease ==
    /\ [](\A m \in Managers :
             /\ sem[m] >= 0
             /\ \A c \in Waiters(m) : sem[m] > 0 => ENABLED AcquireWake(c))
    /\ [][C2_Step]_vars

\* Two callers are blocked and one slot has come back.
C2_Witness ==
    Waiting(1) >= 2 /\ sem[1] = 1 /\ Outstanding(1) = cap[1] - 1

(* C3: a table's permit is outstanding exactly as long as some shared       *)
(* handle to the table exists: a table referenced by a map or by a caller   *)
(* is alive with its permit not released, also when its map entry has been  *)
(* removed or replaced, and an Arc-shared table without any reference is    *)
(* gone.  The Arc count is the number of references.                        *)
C3_PermitWhileShared ==
    \A tb \in QuotaIds :
        /\ Refs(tb) > 0 => tables[tb].live /\ quotas[tb] # 0
        /\ tables[tb].live => tables[tb].strong = Refs(tb)
        /\ tables[tb].live /\ Refs(tb) = 0 => \E c \in Callers : c.ht = tb

\* A table no map holds any more is kept alive, permit and all, by a caller.
C3_Witness ==
    \E tb \in QuotaIds :
        /\ InMaps(tb) = 0 /\ Holders(tb) > 0
        /\ tables[tb].live /\ quotas[tb] # 0
        /\ sem[quotas[tb]] + Outstanding(quotas[tb]) = cap[quotas[tb]]

(* C4: when add_cache inserts a table under an identity that is not in a    *)
(* full map, the map lets go of its least recently used entry, the last of  *)
(* the recency order, and of no other; the table of that entry lives on,    *)
(* permit outstanding, while a caller holds a handle to it, and the drop of *)
(* the last handle (the map's own, if no caller holds one) returns its slot *)
(* to the semaphore, where acquire_quota can take it.                       *)
C4_Evicts(c) ==
    LET m == c.want.mgr
        victim == lru[m][Len(lru[m])]
        pm == quotas[victim.table]
    IN  /\ lru'[m] = <<[file |-> c.want.file, table |-> c.ht]>>
                        \o SubSeq(lru[m], 1, Len(lru[m]) - 1)
        /\ IF Holders(victim.table) > 0
           THEN /\ tables'[victim.table].live
                /\ quotas'[victim.table] = pm
                /\ sem' = sem
           ELSE /\ ~tables'[victim.table].live
                /\ quotas'[victim.table] = 0
                /\ sem' = [sem EXCEPT ![pm] = @ + 1]
                /\ can_acquire(sem'[pm])

C4_LastDrop(c) ==
    LET pm == quotas[c.hh]
    IN  /\ quotas'[c.hh] = 0
        /\ sem' = [sem EXCEPT ![pm] = @ + 1]
        /\ can_acquire(sem'[pm])

C4_Step ==
    \A c \in Callers :
        /\ (/\ AddCache(c)
            /\ Position(lru[c.want.mgr], c.want.file) = 0
            /\ Len(lru[c.want.mgr]) = cap[c.want.mgr]) => C4_Evicts(c)
        /\ (DropHandle(c) /\ Refs(c.hh) = 1) => C4_LastDrop(c)

C4_EvictsLeastRecent == [][C4_Step]_vars

\* The map is full, and a caller holds a table that is in no map and whose
\* identity is no key of the map: the table was evicted.
C4_Witness ==
    \E tb \in QuotaIds :
        /\ tables[tb].live /\ Holders(tb) > 0 /\ InMaps(tb) = 0
        /\ Position(lru[1], tables[tb].file) = 0
        /\ Len(lru[1]) = cap[1]

(* C5: every table held in a map is alive and owns a permit that is         *)
(* outstanding, no two map entries hold the same table (hence the same      *)
(* permit), and a map has no more entries than there are permits            *)
(* outstanding.                                                             *)
Entries == {e \in Managers \X (1..Cardinality(QuotaIds)) : e[2] <= Len(lru[e[1]])}

C5_OnePermitPerEntry ==
    /\ \A e \in Entries :
          LET tb == lru[e[1]][e[2]].table
          IN  tables[tb].live /\ quotas[tb] \in alive
    /\ \A e1, e2 \in Entries :
          e1 # e2 => lru[e1[1]][e1[2]].table # lru[e2[1]][e2[2]].table
    /\ \A m \in Managers : Len(lru[m]) <= Cardinality(QuotaIds \ FreeQuotas)

\* A full map, and a permit more outstanding than the map has entries.
C5_Witness ==
    /\ Len(lru[1]) = cap[1]
    /\ Cardinality(QuotaIds \ FreeQuotas) > Len(lru[1])

(* C6: no two separately parsed tables for the same identity, each with    *)
(* its own permit, are alive at the same time.                              *)
C6_NoTwinTables ==
    \A t1, t2 \in QuotaIds :
        (/\ t1 # t2
         /\ tables[t1].live /\ quotas[t1] # 0
         /\ tables[t2].live /\ quotas[t2] # 0) =>
            tables[t1].file # tables[t2].file

(* C7: a from_raw that returns a corruption error releases the permit it    *)
(* was given, once: the permit is gone, its manager's semaphore has one     *)
(* slot more, and no table has come into being.  Dropping a parsed table    *)
(* that was never passed to add_cache does the same with the table's own    *)
(* permit.                                                                  *)
C7_Released(q) ==
    LET pm == quotas[q]
    IN  /\ quotas' = [quotas EXCEPT ![q] = 0]
        /\ sem' = [sem EXCEPT ![pm] = @ + 1]
        /\ \A t \in QuotaIds : tables'[t].live => t # q /\ tables[t].live

ReturnedErr(c) ==
    \E d \in BagToSet(callers') : d.perr # "" /\ callers' = Move(c, d)

C7_Step ==
    \A c \in Callers :
        /\ (FromRaw(c) /\ ReturnedErr(c)) => C7_Released(c.hq)
        /\ DropTable(c) => C7_Released(c.ht)

C7_ReleasedOnce == [][C7_Step]_vars

\* from_raw has returned a corruption error to a caller, and every slot of
\* the manager is back in the semaphore.
C7_Witness ==
    /\ \E c \in Callers : c.perr # ""
    /\ Outstanding(1) = 0 /\ sem[1] = cap[1]
    /\ \A t \in QuotaIds : ~tables[t].live

(* C8: the map's order is the recency order.  A get_cache that hits moves   *)
(* the entry to the front, an add_cache puts its entry at the front, also   *)
(* when it replaces one, a get_cache that misses changes nothing, and the   *)
(* entries that stay keep their table and their relative order.             *)
Keys(cache) == [i \in 1..Len(cache) |-> cache[i].file]
KeySet(cache) == {cache[i].file : i \in 1..Len(cache)}
Others(cache, f) == SelectSeq(cache, LAMBDA e : e.file # f)
Survivors(cache, after) == SelectSeq(cache, LAMBDA e : e.file \in KeySet(after))

C8_Step ==
    \A c \in Callers :
        /\ \A m \in Managers, f \in Files :
              GetCache(c, m, f) =>
                 /\ \A n \in Managers \ {m} : lru'[n] = lru[n]
                 /\ IF f \in KeySet(lru[m])
                    THEN /\ Head(lru'[m]) = lru[m][Position(lru[m], f)]
                         /\ Tail(lru'[m]) = Others(lru[m], f)
                    ELSE lru'[m] = lru[m]
        /\ AddCache(c) =>
              LET m == c.want.mgr
                  f == c.want.file
              IN  /\ \A n \in Managers \ {m} : lru'[n] = lru[n]
                  /\ Head(lru'[m]) = [file |-> f, table |-> c.ht]
                  /\ Tail(lru'[m]) = Survivors(Others(lru[m], f), Tail(lru'[m]))
                  /\ KeySet(lru[m]) \ KeySet(lru'[m]) # {} =>
                        /\ f \notin KeySet(lru[m])
                        /\ Len(lru'[m]) = Len(lru[m])

C8_StrictRecencyOrder == [][C8_Step]_vars

\* Two entries in the map, and both callers hold the table at the front:
\* one of them, at least, has it from a get_cache that hit.
C8_Witness ==
    /\ Len(lru[1]) >= 2
    /\ Holders(lru[1][1].table) >= 2

(* C9: a map holds at most as many entries as the slot count its manager    *)
(* was created with, and at most one entry per table identity.              *)
C9_MapBounded ==
    \A m \in alive :
        /\ Len(lru[m]) <= cap[m]
        /\ \A i, j \in 1..Len(lru[m]) : i # j => lru[m][i].file # lru[m][j].file

\* The map is full and a table that was added to it is alive outside it.
C9_Witness ==
    /\ Len(lru[1]) = cap[1]
    /\ \E tb \in QuotaIds :
          tables[tb].live /\ tables[tb].strong > 0 /\ InMaps(tb) = 0

(* C10: for a buffer that is shorter than TABLE_MIN_SIZE, longer than       *)
(* TABLE_MAX_SIZE, does not end in TABLE_MAGIC, states a catalog size that  *)
(* is no multiple of the entry width, states sizes that do not add up to    *)
(* its length, or carries a catalog or data segment whose CRC32 is not the  *)
(* one in the header, from_raw returns a corruption error: it does not      *)
(* panic and it hands out no table, no catalog and no data.                 *)
HeaderCatalogSize(buf) == decode_fixed32(SubSeq(buf, 1, 4))
HeaderDataSize(buf) == decode_fixed32(SubSeq(buf, 5, 8))
SizesAddUp(buf) ==
    /\ Len(buf) >= TABLE_MIN_SIZE
    /\ HeaderCatalogSize(buf)[2] = 0 /\ HeaderDataSize(buf)[2] = 0
    /\ HeaderCatalogSize(buf)[1] + HeaderDataSize(buf)[1] + TABLE_HEAD_SIZE
          + TABLE_MAGIC_SIZE = Len(buf)
CatalogSegment(buf) ==
    SubSeq(buf, TABLE_HEAD_SIZE + 1, TABLE_HEAD_SIZE + HeaderCatalogSize(buf)[1])
DataSegment(buf) ==
    SubSeq(buf, TABLE_HEAD_SIZE + HeaderCatalogSize(buf)[1] + 1,
           Len(buf) - TABLE_MAGIC_SIZE)

TooSmall(buf) == Len(buf) < TABLE_MIN_SIZE
TooLarge(buf) == Len(buf) > TABLE_MAX_SIZE
WrongMagic(buf) ==
    /\ Len(buf) >= TABLE_MAGIC_SIZE
    /\ SubSeq(buf, Len(buf) - TABLE_MAGIC_SIZE + 1, Len(buf)) # TABLE_MAGIC
Misaligned(buf) ==
    /\ Len(buf) >= TABLE_MIN_SIZE
    /\ WMod(HeaderCatalogSize(buf), TABLE_CATALOG_ITEM_SIZE) # 0
WrongSize(buf) == Len(buf) >= TABLE_MIN_SIZE /\ ~SizesAddUp(buf)
WrongCatalogCrc(buf) ==
    /\ SizesAddUp(buf)
    /\ checksum_ieee(CatalogSegment(buf)) # decode_fixed32(SubSeq(buf, 9, 12))
WrongDataCrc(buf) ==
    /\ SizesAddUp(buf)
    /\ checksum_ieee(DataSegment(buf)) # decode_fixed32(SubSeq(buf, 13, 16))

HasDefect(buf) ==
    \/ TooSmall(buf) \/ TooLarge(buf) \/ WrongMagic(buf) \/ Misaligned(buf)
    \/ WrongSize(buf) \/ WrongCatalogCrc(buf) \/ WrongDataCrc(buf)

C10_DefectsAreCorruption ==
    (parsed # NotParsed /\ HasDefect(raw)) =>
        /\ parsed.kind = "err"
        /\ parsed.catalog = <<>> /\ parsed.data = <<>>

\* from_raw has turned down a buffer whose catalog holds entries and whose
\* only defect is the data checksum.
C10_Witness ==
    /\ parsed.kind = "err"
    /\ WrongDataCrc(raw) /\ Len(CatalogSegment(raw)) > 0
    /\ ~(\/ TooSmall(raw) \/ TooLarge(raw) \/ WrongMagic(raw)
         \/ Misaligned(raw) \/ WrongSize(raw) \/ WrongCatalogCrc(raw))

(* C11: in every table from_raw accepts, each non-tombstone entry has       *)
(* key_off + key_len and value_off + value_len, taken as unbounded          *)
(* integers, within the data segment; and a buffer that passes the header   *)
(* checks and holds a non-tombstone entry whose true sum is past the data   *)
(* segment, sums of 2^32 and more included, gets a corruption error: it is  *)
(* neither accepted nor does from_raw panic on it.                          *)
InData(off, len, n) == ~WGt(WAdd(off, len), W(n))
EntryInData(e, n) ==
    InData(e.key_off, e.key_len, n) /\ InData(e.value_off, e.value_len, n)
FileEntries(buf) ==
    [i \in 1..(Len(CatalogSegment(buf)) \div TABLE_CATALOG_ITEM_SIZE) |->
        deserialize(SubSeq(CatalogSegment(buf),
                           (i - 1) * TABLE_CATALOG_ITEM_SIZE + 1,
                           i * TABLE_CATALOG_ITEM_SIZE))]
HasEntryPastData(buf) ==
    \E i \in 1..Len(FileEntries(buf)) :
        /\ ~IsDeleted(FileEntries(buf)[i].value_off)
        /\ ~EntryInData(FileEntries(buf)[i], Len(DataSegment(buf)))

C11_RangesChecked ==
    /\ parsed.kind = "ok" =>
          \A i \in 1..Len(parsed.catalog) :
              IsDeleted(parsed.catalog[i].value_off)
                 \/ EntryInData(parsed.catalog[i], Len(parsed.data))
    /\ (parsed # NotParsed /\ ~HasDefect(raw) /\ HasEntryPastData(raw)) =>
          parsed.kind = "err"

(* C12: on a table whose catalog is sorted by (user key ascending,          *)
(* sequence descending) with distinct (user key, sequence) pairs, get with  *)
(* the lookup key (K, s) returns the value bytes of the entry with user key *)
(* K and sequence s when there is one and it is no tombstone, and not-found *)
(* when no entry has user key K and sequence s.                             *)
EntryKey(tbl, i) ==
    [seq |-> tbl.catalog[i].key_seq,
     user_key |-> SubSeq(tbl.data, WToInt(tbl.catalog[i].key_off) + 1,
                         WToInt(WAdd(tbl.catalog[i].key_off,
                                     tbl.catalog[i].key_len)))]
EntryValue(tbl, i) ==
    SubSeq(tbl.data, WToInt(tbl.catalog[i].value_off) + 1,
           WToInt(WAdd(tbl.catalog[i].value_off, tbl.catalog[i].value_len)))
KeysReadable(tbl) ==
    \A i \in 1..Len(tbl.catalog) :
        InData(tbl.catalog[i].key_off, tbl.catalog[i].key_len, Len(tbl.data))
IsSorted(tbl) ==
    /\ KeysReadable(tbl)
    /\ \A i, j \in 1..Len(tbl.catalog) :
          i < j => InternalKey_cmp(EntryKey(tbl, i), EntryKey(tbl, j)) = "Less"
Matches(tbl, lookup) ==
    {i \in 1..Len(tbl.catalog) : EntryKey(tbl, i) = lookup}

C12_GetFindsExact ==
    (answer.op = "get" /\ IsSorted(parsed)) =>
        /\ Matches(parsed, answer.lookup) = {} => answer.res = NotFound
        /\ \A i \in Matches(parsed, answer.lookup) :
              ~IsDeleted(parsed.catalog[i].value_off) =>
                  answer.res = Found(EntryValue(parsed, i))

(* C13: on an accepted table whose entries all have a key in the data, with *)
(* a tombstone entry (K, s) and an older entry for K that has a value, get  *)
(* with the lookup key (K, s) returns not-found: not the older value, and   *)
(* no failure, although the tombstone's value fields point outside the      *)
(* data.                                                                    *)
TombstonesAt(tbl, lookup) ==
    {i \in Matches(tbl, lookup) : IsDeleted(tbl.catalog[i].value_off)}
OlderLive(tbl, i) ==
    {j \in 1..Len(tbl.catalog) :
        /\ EntryKey(tbl, j).user_key = EntryKey(tbl, i).user_key
        /\ SeqGt(tbl.catalog[i].key_seq, tbl.catalog[j].key_seq)
        /\ ~IsDeleted(tbl.catalog[j].value_off)}

C13_TombstoneHidesOlder ==
    (/\ answer.op = "get" /\ KeysReadable(parsed)
     /\ \E i \in TombstonesAt(parsed, answer.lookup) : OlderLive(parsed, i) # {})
        => answer.res = NotFound

\* get was asked for the tombstone in the middle of a catalog of three, the
\* entry binary_search_by probes first, with the older value right after it.
C13_Witness ==
    /\ answer.op = "get" /\ answer.res = NotFound
    /\ KeysReadable(parsed) /\ Len(parsed.catalog) = 3
    /\ 2 \in TombstonesAt(parsed, answer.lookup)
    /\ 3 \in OlderLive(parsed, 2)
    /\ ~InData(parsed.catalog[2].value_off, parsed.catalog[2].value_len,
               Len(parsed.data))

(* C14: on an accepted table, nth_item(n) for each n below catalog_size()   *)
(* returns the sequence number, the key bytes and the value bytes of the    *)
(* n-th entry of the file's catalog, tombstone entries included, and does   *)
(* not fail.                                                                *)
C14_ScanYieldsEntries ==
    (/\ answer.op = "nth" /\ answer.n < catalog_size(parsed)
     /\ KeysReadable(parsed)) =>
        /\ answer.res.kind = "item"
        /\ answer.res.seq = FileEntries(raw)[answer.n + 1].key_seq
        /\ answer.res.key = EntryKey(parsed, answer.n + 1).user_key
        /\ ~IsDeleted(parsed.catalog[answer.n + 1].value_off) =>
              answer.res.value = EntryValue(parsed, answer.n + 1)

(* C19: on an accepted table, get reads inside the data segment only: no    *)
(* lookup makes it fail on a key or value range, and the entry of a         *)
(* one-entry catalog, which every search probes, tombstone or not, has      *)
(* key_off + key_len within the data length.                                *)
C19_GetReadsInData ==
    answer.op = "get" =>
        /\ answer.res.kind # "panic"
        /\ Len(parsed.catalog) = 1 => KeysReadable(parsed)

(* C17: in every reachable state the free-slot count of a manager's         *)
(* semaphore plus the number of its live permits equals its slot count N,   *)
(* and the free-slot count stays between 0 and N: no operation leaks a      *)
(* slot, releases one twice or raises the count above N.                    *)
C17_SlotsConserved ==
    \A m \in alive :
        /\ sem[m] + Outstanding(m) = cap[m]
        /\ 0 <= sem[m] /\ sem[m] <= cap[m]

\* One permit sits in a cached table, a failed from_raw has given its permit
\* back, and a third caller holds a permit directly.
C17_Witness ==
    /\ Len(lru[1]) = 1 /\ quotas[lru[1][1].table] = 1
    /\ \E c \in Callers : c.perr # ""
    /\ \E c \in Callers : c.hq # 0 /\ quotas[c.hq] = 1
    /\ sem[1] = cap[1] - 2

(* C18: with every table parsed under a permit of the manager it is added   *)
(* to, add_cache never removes an entry of another identity: when it is     *)
(* called with an identity the map does not hold, the map has fewer than N  *)
(* entries, and every identity in the map before the call is in it after.   *)
C18_Step ==
    \A c \in Callers :
        AddCache(c) =>
            LET m == c.want.mgr
            IN  /\ Position(lru[m], c.want.file) = 0 => Len(lru[m]) < cap[m]
                /\ \A i \in 1..Len(lru[m]) :
                      Position(lru'[m], lru[m][i].file) # 0
                /\ \A i \in 1..Len(lru[m]) :
                      lru[m][i].file # c.want.file =>
                          tables'[lru[m][i].table] = tables[lru[m][i].table]

C18_NoForeignEviction == [][C18_Step]_vars

\* A table of a new identity has just been added to a map that held N - 1
\* others, and all N entries are there.
C18_Witness ==
    /\ Len(lru[1]) = cap[1] /\ cap[1] >= 2
    /\ \E c \in Callers : c.hh = lru[1][1].table
    /\ tables[lru[1][1].table].strong = 2
    /\ \A i \in 2..Len(lru[1]) : Holders(lru[1][i].table) = 0
    /\ sem[1] = 0

(* C15: no permit outlives the manager that issued it: in no reachable      *)
(* state is a CacheQuota alive, held by a caller or inside a parsed table,  *)
(* whose manager has been destroyed, so that no release acts on a           *)
(* destroyed manager.                                                       *)
C15_NoPermitOutlivesManager ==
    \A q \in QuotaIds : quotas[q] # 0 => quotas[q] \in alive

\* N tables are resident in manager 1's map, no caller holds a handle, a
\* permit or a table, and k callers are blocked in acquire_quota.
FullyResident(k) ==
    /\ Len(lru[1]) = cap[1]
    /\ \A c \in Callers : c.hh = 0 /\ c.hq = 0 /\ c.ht = 0
    /\ Waiting(1) = k

(* C16: with callers that eventually drop what they hold, a call of         *)
(* acquire_quota returns: when N distinct tables are resident in the map    *)
(* of a manager with slot count N, no caller holds a handle, and callers    *)
(* that missed on a further identity are blocked in acquire_quota, one of   *)
(* them eventually obtains a permit.                                        *)
C16_AcquireReturns ==
    \A k \in 1..NumThreads : FullyResident(k) ~> (Waiting(1) < k)

\* The reason of the first check, in the order length bounds, magic,
\* alignment, size, catalog CRC, data CRC, that the buffer fails ("": none).
FirstHeaderDefect(buf) ==
    IF TooSmall(buf) THEN "too small to be a table file"
    ELSE IF TooLarge(buf) THEN "too large to be a table file"
    ELSE IF WrongMagic(buf) THEN "incorrect table magic"
    ELSE IF Misaligned(buf)
    THEN "catalog size should be multiplication of 16"
    ELSE IF WrongSize(buf) THEN "incorrect table size"
    ELSE IF WrongCatalogCrc(buf) THEN "incorrect kv_catalog crc"
    ELSE IF WrongDataCrc(buf) THEN "incorrect data crc"
    ELSE ""

\* The live entries with a range past the data, and whether the sums of an
\* entry leave 32 bits.
BadEntries(buf) ==
    {i \in 1..Len(FileEntries(buf)) :
        /\ ~IsDeleted(FileEntries(buf)[i].value_off)
        /\ ~EntryInData(FileEntries(buf)[i], Len(DataSegment(buf)))}
Wraps(e) ==
    \/ add_u32(e.key_off, e.key_len).overflow
    \/ add_u32(e.value_off, e.value_len).overflow

(* C20: from_raw checks length bounds, magic, catalog alignment, size       *)
(* consistency, catalog CRC, data CRC and then the entries in catalog       *)
(* order, and stops at the first failure: a buffer with several defects is  *)
(* turned down with the reason of the earliest failing check, whatever a    *)
(* later check would have found (an entry whose sum overflows included),    *)
(* and with sound header fields the first entry past the data ends the      *)
(* parse before any later entry is looked at.                               *)
C20_FirstFailureWins ==
    parsed # NotParsed =>
        /\ FirstHeaderDefect(raw) # "" =>
              parsed = Corrupt(FirstHeaderDefect(raw))
        /\ (/\ FirstHeaderDefect(raw) = ""
            /\ BadEntries(raw) # {}
            /\ ~Wraps(FileEntries(raw)[MinOf(BadEntries(raw))])) =>
              parsed = Corrupt("incorrect key/value catalog data")
        /\ (parsed.kind = "err"
               /\ parsed.reason = "incorrect key/value catalog data") =>
              FirstHeaderDefect(raw) = "" /\ BadEntries(raw) # {}

\* A buffer with both checksums wrong and an entry whose sum overflows is
\* turned down for the catalog checksum in a build that traps overflow.
C20_Witness ==
    /\ overflow_checks /\ parsed.kind = "err"
    /\ parsed.reason = "incorrect kv_catalog crc"
    /\ WrongCatalogCrc(raw) /\ WrongDataCrc(raw)
    /\ \E i \in 1..Len(FileEntries(raw)) : Wraps(FileEntries(raw)[i])

===========================================================================
